---- MODULE Spec2Model ----
(***************************************************************************)
(* Model of static/js/gd-lightbox.js: the group indexer (prepareGroups),   *)
(* the overlay controller (buildOverlay, open, hide, showIndex) and the    *)
(* DOM event listeners that drive them.                                    *)
(***************************************************************************)
EXTENDS Integers, Sequences, FiniteSets

(* ---------------------------------------------------------------- bounds *)
MaxAnchors == 2
MaxRefresh == 2
MaxEdits == 1

(* ------------------------------------------------------ values of the DOM *)
\* getAttribute() of a missing attribute, and the initial STATE handles
null == "null"
\* values of the data-lightbox attribute
Lightboxes == {null, "", "vacation"}
\* values of the href attribute
Hrefs == {"/a.jpg", "/b.jpg", "/c.jpg"}
\* the (data-title, title, alt of the contained img) a page gives the link to h
CaptionOf(h) ==
    IF h = "/a.jpg" THEN <<null, null, null>>
    ELSE IF h = "/b.jpg" THEN <<null, "T", "A">>
    ELSE <<"D", "", "A">>
Keys == {"Escape", "ArrowLeft", "ArrowRight", "Enter"}
\* elements of the overlay a click can hit
Targets == {"overlay", "closeBtn", "stage", "img", "caption", "prevBtn", "nextBtn"}

Anchor(lb, href) ==
    [lightbox |-> lb, href |-> href,
     dataTitle |-> CaptionOf(href)[1], title |-> CaptionOf(href)[2], alt |-> CaptionOf(href)[3]]

\* the hrefs of a page, up to renaming: the i-th anchor links to one of the
\* first i images
HrefSeq == <<"/a.jpg", "/b.jpg", "/c.jpg">>
InitHrefs(i) == { HrefSeq[k] : k \in 1..(IF i < Len(HrefSeq) THEN i ELSE Len(HrefSeq)) }

Pages ==
    UNION { { p \in [1..n -> { Anchor(lb, h) : lb \in Lightboxes, h \in Hrefs }] :
                \A i \in 1..n : p[i].href \in InitHrefs(i) } : n \in 1..MaxAnchors }

\* the page of the three-image gallery "vacation"
ScenarioA ==
    [i \in 1..3 |-> Anchor("vacation", HrefSeq[i])]

VARIABLES
    anchors,          \* the <a> elements of the document, in document order
    listeners,        \* per anchor, the click listeners attached so far (closures)
    groups,           \* STATE.groups
    currentGroup,     \* STATE.currentGroup
    currentIndex,     \* STATE.currentIndex
    overlay,          \* STATE.overlay: null or the overlay element
    classList,        \* STATE.overlay.classList (without the fixed class name)
    rootClassList,    \* document.documentElement.classList
    img,              \* STATE.img: [src, alt]
    caption,          \* STATE.caption.textContent
    prevBtn,          \* STATE.prevBtn.style.display
    nextBtn,          \* STATE.nextBtn.style.display
    bodyOverlays,     \* number of overlay elements appended to document.body
    keydownListeners, \* number of keydown listeners registered on document
    page,             \* "loading" or, once DOMContentLoaded has fired, "ready"
    refreshes,        \* number of prepareGroups() runs so far
    edits,            \* number of markup edits so far
    dirty,            \* the markup was edited after the last prepareGroups()
    lastEvent         \* the event delivered last

vars == << anchors, listeners, groups, currentGroup, currentIndex, overlay,
           classList, rootClassList, img, caption, prevBtn, nextBtn,
           bodyOverlays, keydownListeners, page, refreshes, edits, dirty, lastEvent >>

(* ------------------------------------------------------------ JS helpers *)
\* a || b on attribute values: null and '' are falsy
Or(a, b) == IF a = null \/ a = "" THEN b ELSE a

\* STATE.groups.get(g) || []
GetItems(g) == IF g \in DOMAIN groups THEN groups[g] ELSE << >>

\* the session part of the state, threaded through the handlers
Session ==
    [ currentGroup |-> currentGroup, currentIndex |-> currentIndex,
      overlay |-> overlay, classList |-> classList, rootClassList |-> rootClassList,
      img |-> img, caption |-> caption, prevBtn |-> prevBtn, nextBtn |-> nextBtn,
      bodyOverlays |-> bodyOverlays, keydownListeners |-> keydownListeners ]

(* ------------------------------------------------------ overlay controller *)
\* buildOverlay() without the early return on an existing overlay
buildOverlay_Again(s) ==
    [s EXCEPT !.overlay = "overlay",
              !.bodyOverlays = @ + 1,
              !.img = [src |-> "", alt |-> ""],
              !.caption = "",
              !.prevBtn = "",
              !.nextBtn = "",
              !.keydownListeners = @ + 1]

\* buildOverlay(): construct the overlay and register its listeners, once
buildOverlay(s) ==
    IF s.overlay # null THEN s
    ELSE [s EXCEPT !.overlay = "overlay",
                   !.bodyOverlays = @ + 1,
                   !.img = [src |-> "", alt |-> ""],
                   !.caption = "",
                   !.prevBtn = "",
                   !.nextBtn = "",
                   !.keydownListeners = @ + 1]

\* showIndex clamping i to the ends of the group instead of wrapping it
showIndex_Clamp(s, i) ==
    LET items == GetItems(s.currentGroup)
        n     == Len(items)
        i1    == IF i < 0 THEN 0 ELSE i
        i2    == IF i1 >= n THEN n - 1 ELSE i1
        multi == n > 1
    IN  IF n = 0 THEN s
        ELSE [s EXCEPT !.currentIndex = i2,
                       !.img = [src |-> items[i2 + 1].src,
                                alt |-> Or(items[i2 + 1].title, "")],
                       !.caption = Or(items[i2 + 1].title, ""),
                       !.prevBtn = IF multi THEN "" ELSE "none",
                       !.nextBtn = IF multi THEN "" ELSE "none"]

\* showIndex(i) leaving the caption surface as it was
showIndex_StaleCaption(s, i) ==
    LET items == GetItems(s.currentGroup)
        n     == Len(items)
        i1    == IF i < 0 THEN n - 1 ELSE i
        i2    == IF i1 >= n THEN 0 ELSE i1
        multi == n > 1
    IN  IF n = 0 THEN s
        ELSE [s EXCEPT !.currentIndex = i2,
                       !.img = [src |-> items[i2 + 1].src,
                                alt |-> Or(items[i2 + 1].title, "")],
                       !.prevBtn = IF multi THEN "" ELSE "none",
                       !.nextBtn = IF multi THEN "" ELSE "none"]

\* showIndex(i): wrap i into the current group and render the item
showIndex(s, i) ==
    LET items == GetItems(s.currentGroup)
        n     == Len(items)
        i1    == IF i < 0 THEN n - 1 ELSE i
        i2    == IF i1 >= n THEN 0 ELSE i1
        multi == n > 1
    IN  IF n = 0 THEN s
        ELSE [s EXCEPT !.currentIndex = i2,
                       !.img = [src |-> items[i2 + 1].src,
                                alt |-> Or(items[i2 + 1].title, "")],
                       !.caption = Or(items[i2 + 1].title, ""),
                       !.prevBtn = IF multi THEN "" ELSE "none",
                       !.nextBtn = IF multi THEN "" ELSE "none"]

\* hide() leaving the scroll lock on the root element
hide_KeepLock(s) ==
    [s EXCEPT !.classList = @ \ {"is-open"},
              !.currentIndex = -1]

\* hide() forgetting to reset the index
hide_KeepIndex(s) ==
    [s EXCEPT !.classList = @ \ {"is-open"},
              !.rootClassList = @ \ {"gd-lightbox-lock"}]

\* hide()
hide(s) ==
    [s EXCEPT !.classList = @ \ {"is-open"},
              !.rootClassList = @ \ {"gd-lightbox-lock"},
              !.currentIndex = -1]

\* arr.findIndex((it) => it.src === src), 0-based, -1 when absent
RECURSIVE findIndexFrom(_, _, _)
findIndexFrom(arr, src, k) ==
    IF k >= Len(arr) THEN -1
    ELSE IF arr[k + 1].src = src THEN k
    ELSE findIndexFrom(arr, src, k + 1)

\* findIndex scanning from the end: the last match
RECURSIVE findLastIndexFrom(_, _, _)
findLastIndexFrom(arr, src, k) ==
    IF k < 0 THEN -1
    ELSE IF arr[k + 1].src = src THEN k
    ELSE findLastIndexFrom(arr, src, k - 1)

findIndex_Last(arr, src) == findLastIndexFrom(arr, src, Len(arr) - 1)

findIndex(arr, src) == findIndexFrom(arr, src, 0)

\* open(group, src) doing nothing when the overlay is already shown
open_OnlyWhenClosed(s, group, src) ==
    IF "is-open" \in s.classList THEN s
    ELSE LET s1  == buildOverlay(s)
             s2  == [s1 EXCEPT !.currentGroup = group]
             arr == GetItems(group)
             idx == findIndex(arr, src)
             s3  == [s2 EXCEPT !.classList = @ \cup {"is-open"},
                               !.rootClassList = @ \cup {"gd-lightbox-lock"}]
         IN  showIndex(s3, IF idx < 0 THEN 0 ELSE idx)

\* open(group, src)
open(s, group, src) ==
    LET s1  == buildOverlay(s)
        s2  == [s1 EXCEPT !.currentGroup = group]
        arr == GetItems(group)
        idx == findIndex(arr, src)
        s3  == [s2 EXCEPT !.classList = @ \cup {"is-open"},
                          !.rootClassList = @ \cup {"gd-lightbox-lock"}]
    IN  showIndex(s3, IF idx < 0 THEN 0 ELSE idx)

(* ------------------------------------------------------------ listeners *)
\* mouse events a click on an anchor can carry
ClickEvents ==
    { [button |-> 0, metaKey |-> FALSE, ctrlKey |-> FALSE, shiftKey |-> FALSE, altKey |-> FALSE],
      [button |-> 1, metaKey |-> FALSE, ctrlKey |-> FALSE, shiftKey |-> FALSE, altKey |-> FALSE],
      [button |-> 0, metaKey |-> TRUE,  ctrlKey |-> FALSE, shiftKey |-> FALSE, altKey |-> FALSE],
      [button |-> 0, metaKey |-> FALSE, ctrlKey |-> TRUE,  shiftKey |-> FALSE, altKey |-> FALSE],
      [button |-> 0, metaKey |-> FALSE, ctrlKey |-> FALSE, shiftKey |-> TRUE,  altKey |-> FALSE],
      [button |-> 0, metaKey |-> FALSE, ctrlKey |-> FALSE, shiftKey |-> FALSE, altKey |-> TRUE] }

\* an unmodified click of the primary button
Primary(e) ==
    e = [button |-> 0, metaKey |-> FALSE, ctrlKey |-> FALSE, shiftKey |-> FALSE, altKey |-> FALSE]

\* the early return without the test of the alt key
Ignored_NoAlt(e) == e.button # 0 \/ e.metaKey \/ e.ctrlKey \/ e.shiftKey

\* the early return of the click interceptor
Ignored(e) == e.button # 0 \/ e.metaKey \/ e.ctrlKey \/ e.shiftKey \/ e.altKey

\* one click interceptor, a closure over (group, src), run on event e;
\* r = [s: session, prevented: e.defaultPrevented]
interceptor(r, e, cl) ==
    IF Ignored(e) THEN r
    ELSE [s |-> open(r.s, cl.group, cl.src), prevented |-> TRUE]

\* dispatch of a click to the listeners of one anchor, in registration order
RECURSIVE dispatchClick(_, _, _, _)
dispatchClick(r, e, ls, k) ==
    IF k > Len(ls) THEN r
    ELSE dispatchClick(interceptor(r, e, ls[k]), e, ls, k + 1)

\* the keydown listener with the two arrow keys exchanged
keydown_Swapped(s, key) ==
    IF "is-open" \notin s.classList THEN s
    ELSE LET s1 == IF key = "Escape" THEN hide(s) ELSE s
             s2 == IF key = "ArrowLeft" THEN showIndex(s1, s1.currentIndex + 1) ELSE s1
         IN  IF key = "ArrowRight" THEN showIndex(s2, s2.currentIndex - 1) ELSE s2

\* the keydown listener without the check of the 'is-open' class
keydown_Ungated(s, key) ==
    LET s1 == IF key = "Escape" THEN hide(s) ELSE s
        s2 == IF key = "ArrowLeft" THEN showIndex(s1, s1.currentIndex - 1) ELSE s1
    IN  IF key = "ArrowRight" THEN showIndex(s2, s2.currentIndex + 1) ELSE s2

\* the keydown listener registered by buildOverlay
keydown(s, key) ==
    IF "is-open" \notin s.classList THEN s
    ELSE LET s1 == IF key = "Escape" THEN hide(s) ELSE s
             s2 == IF key = "ArrowLeft" THEN showIndex(s1, s1.currentIndex - 1) ELSE s1
         IN  IF key = "ArrowRight" THEN showIndex(s2, s2.currentIndex + 1) ELSE s2

\* dispatch of a keydown to the n listeners registered on document
RECURSIVE dispatchKey(_, _, _)
dispatchKey(s, key, n) ==
    IF n = 0 THEN s ELSE dispatchKey(keydown(s, key), key, n - 1)

\* the overlay's click listener closing on every target that bubbles to it
overlayClick_AnyTarget(s, target) ==
    IF target = "prevBtn" THEN showIndex(s, s.currentIndex - 1)
    ELSE IF target = "nextBtn" THEN showIndex(s, s.currentIndex + 1)
    ELSE hide(s)

\* the overlay listeners with the next button stepping backwards
overlayClick_NextBack(s, target) ==
    IF target = "prevBtn" THEN showIndex(s, s.currentIndex - 1)
    ELSE IF target = "nextBtn" THEN showIndex(s, s.currentIndex - 1)
    ELSE IF target = "overlay" \/ target = "closeBtn" THEN hide(s)
    ELSE s

\* a click inside the overlay: the prev/next listeners stop propagation,
\* every other target bubbles to the overlay's own click listener
overlayClick(s, target) ==
    IF target = "prevBtn" THEN showIndex(s, s.currentIndex - 1)
    ELSE IF target = "nextBtn" THEN showIndex(s, s.currentIndex + 1)
    ELSE IF target = "overlay" \/ target = "closeBtn" THEN hide(s)
    ELSE s

(* --------------------------------------------------------- group indexer *)
\* qsa('a[data-lightbox]'): positions of the anchors carrying the attribute
qsa(as) == { i \in 1..Len(as) : as[i].lightbox # null }

\* the forEach body putting the item at the front of its group (unshift)
scan_Unshift(p, as, i) ==
    LET a     == as[i]
        group == Or(a.lightbox, "_default")
        src   == a.href
        title == Or(a.dataTitle, Or(a.title, Or(a.alt, "")))
        old   == IF group \in DOMAIN p.groups THEN p.groups[group] ELSE << >>
        item  == [link |-> i, src |-> src, title |-> title]
    IN  [ groups    |-> [ g \in DOMAIN p.groups \cup {group} |->
                            IF g = group THEN << item >> \o old ELSE p.groups[g] ],
          listeners |-> [ p.listeners EXCEPT ![i] = Append(@, [group |-> group, src |-> src]) ] ]

\* the forEach body naming the group by the bare attribute value
scan_NoDefault(p, as, i) ==
    LET a     == as[i]
        group == a.lightbox
        src   == a.href
        title == Or(a.dataTitle, Or(a.title, Or(a.alt, "")))
        old   == IF group \in DOMAIN p.groups THEN p.groups[group] ELSE << >>
        item  == [link |-> i, src |-> src, title |-> title]
    IN  [ groups    |-> [ g \in DOMAIN p.groups \cup {group} |->
                            IF g = group THEN Append(old, item) ELSE p.groups[g] ],
          listeners |-> [ p.listeners EXCEPT ![i] = Append(@, [group |-> group, src |-> src]) ] ]

\* the forEach body preferring the title attribute to data-title
scan_TitleFirst(p, as, i) ==
    LET a     == as[i]
        group == Or(a.lightbox, "_default")
        src   == a.href
        title == Or(a.title, Or(a.dataTitle, Or(a.alt, "")))
        old   == IF group \in DOMAIN p.groups THEN p.groups[group] ELSE << >>
        item  == [link |-> i, src |-> src, title |-> title]
    IN  [ groups    |-> [ g \in DOMAIN p.groups \cup {group} |->
                            IF g = group THEN Append(old, item) ELSE p.groups[g] ],
          listeners |-> [ p.listeners EXCEPT ![i] = Append(@, [group |-> group, src |-> src]) ] ]

\* the body of the forEach of prepareGroups for anchor i;
\* p = [groups, listeners]
scan(p, as, i) ==
    LET a     == as[i]
        group == Or(a.lightbox, "_default")
        src   == a.href
        title == Or(a.dataTitle, Or(a.title, Or(a.alt, "")))
        old   == IF group \in DOMAIN p.groups THEN p.groups[group] ELSE << >>
        item  == [link |-> i, src |-> src, title |-> title]
    IN  [ groups    |-> [ g \in DOMAIN p.groups \cup {group} |->
                            IF g = group THEN Append(old, item) ELSE p.groups[g] ],
          listeners |-> [ p.listeners EXCEPT ![i] = Append(@, [group |-> group, src |-> src]) ] ]

RECURSIVE forEach(_, _, _)
forEach(p, as, i) ==
    IF i > Len(as) THEN p
    ELSE forEach(IF i \in qsa(as) THEN scan(p, as, i) ELSE p, as, i + 1)

\* prepareGroups() without STATE.groups.clear()
prepareGroups_NoClear(as, ls) ==
    forEach([groups |-> groups, listeners |-> ls], as, 1)

\* prepareGroups(): clear the table, then scan the document
prepareGroups(as, ls) ==
    forEach([groups |-> << >>, listeners |-> ls], as, 1)

(* ------------------------------------------------------------------ Init *)
NoEvent == [type |-> "none", n |-> 0, name |-> "", prevented |-> FALSE]

Init ==
    /\ anchors \in Pages \cup {ScenarioA}
    /\ listeners = [i \in DOMAIN anchors |-> << >>]
    /\ groups = << >>
    /\ currentGroup = null
    /\ currentIndex = -1
    /\ overlay = null
    /\ classList = {}
    /\ rootClassList = {}
    /\ img = [src |-> null, alt |-> null]
    /\ caption = null
    /\ prevBtn = null
    /\ nextBtn = null
    /\ bodyOverlays = 0
    /\ keydownListeners = 0
    /\ page = "loading"
    /\ refreshes = 0
    /\ edits = 0
    /\ dirty = FALSE
    /\ lastEvent = NoEvent

(* --------------------------------------------------------------- actions *)
\* the session variables take the values of the record s
SetSession(s) ==
    /\ currentGroup' = s.currentGroup
    /\ currentIndex' = s.currentIndex
    /\ overlay' = s.overlay
    /\ classList' = s.classList
    /\ rootClassList' = s.rootClassList
    /\ img' = s.img
    /\ caption' = s.caption
    /\ prevBtn' = s.prevBtn
    /\ nextBtn' = s.nextBtn
    /\ bodyOverlays' = s.bodyOverlays
    /\ keydownListeners' = s.keydownListeners

sessionVars == << currentGroup, currentIndex, overlay, classList, rootClassList,
                  img, caption, prevBtn, nextBtn, bodyOverlays, keydownListeners >>

\* prepareGroups() that also closes the overlay when it rebuilds the table
RunPrepareGroups_Closing ==
    LET p == prepareGroups(anchors, listeners)
    IN  /\ refreshes < MaxRefresh
        /\ groups' = p.groups
        /\ listeners' = p.listeners
        /\ refreshes' = refreshes + 1
        /\ dirty' = FALSE
        /\ SetSession(hide(Session))
        /\ UNCHANGED << anchors, edits >>

\* prepareGroups() as run by either of its two callers
RunPrepareGroups ==
    LET p == prepareGroups(anchors, listeners)
    IN  /\ refreshes < MaxRefresh
        /\ groups' = p.groups
        /\ listeners' = p.listeners
        /\ refreshes' = refreshes + 1
        /\ dirty' = FALSE
        /\ UNCHANGED << anchors, sessionVars, edits >>

\* document 'DOMContentLoaded' listener
DOMContentLoaded ==
    /\ page = "loading"
    /\ RunPrepareGroups
    /\ page' = "ready"
    /\ lastEvent' = [NoEvent EXCEPT !.type = "DOMContentLoaded"]

\* window.GDLightbox.refresh()
Refresh ==
    /\ RunPrepareGroups
    /\ page' = page
    /\ lastEvent' = [NoEvent EXCEPT !.type = "refresh"]

\* a click on anchor i carrying mouse event e.  A plain click on an anchor
\* without listeners follows the link and ends the page: it is no step here.
ClickAnchor(i, e) ==
    LET r == dispatchClick([s |-> Session, prevented |-> FALSE], e, listeners[i], 1)
    IN  /\ ~Primary(e) \/ listeners[i] # << >>
        /\ SetSession(r.s)
        /\ lastEvent' = [type |-> "click", n |-> i,
                         name |-> IF Primary(e) THEN "plain" ELSE "modified",
                         prevented |-> r.prevented]
        /\ UNCHANGED << anchors, listeners, groups, page, refreshes, edits, dirty >>

\* a key press anywhere in the document
KeyDown(key) ==
    /\ SetSession(dispatchKey(Session, key, keydownListeners))
    /\ lastEvent' = [NoEvent EXCEPT !.type = "keydown", !.name = key]
    /\ UNCHANGED << anchors, listeners, groups, page, refreshes, edits, dirty >>

\* what of the overlay the user can hit: nothing unless the overlay is shown,
\* and not a button whose display is 'none'
Clickable(target) ==
    /\ overlay # null
    /\ "is-open" \in classList
    /\ target = "prevBtn" => prevBtn # "none"
    /\ target = "nextBtn" => nextBtn # "none"

\* a click on an element of the overlay
OverlayClick(target) ==
    /\ Clickable(target)
    /\ SetSession(overlayClick(Session, target))
    /\ lastEvent' = [NoEvent EXCEPT !.type = "overlayclick", !.name = target]
    /\ UNCHANGED << anchors, listeners, groups, page, refreshes, edits, dirty >>

\* the host page rewrites the data-lightbox attribute of anchor i (dynamic
\* content).  An edit that no prepareGroups() follows is never read, and one
\* before the first prepareGroups() only makes another initial page.
EditMarkup(i, v) ==
    /\ edits < MaxEdits
    /\ 0 < refreshes /\ refreshes < MaxRefresh
    /\ anchors[i].lightbox # v
    /\ anchors' = [anchors EXCEPT ![i].lightbox = v]
    /\ edits' = edits + 1
    /\ dirty' = TRUE
    /\ lastEvent' = [NoEvent EXCEPT !.type = "edit"]
    /\ UNCHANGED << listeners, groups, sessionVars, page, refreshes >>

Next ==
    \/ DOMContentLoaded
    \/ Refresh
    \/ \E i \in DOMAIN anchors, e \in ClickEvents : ClickAnchor(i, e)
    \/ \E key \in Keys : KeyDown(key)
    \/ \E target \in Targets : OverlayClick(target)
    \/ \E i \in DOMAIN anchors, v \in Lightboxes : EditMarkup(i, v)

Spec == Init /\ [][Next]_vars

\* pages of one anchor with every combination of absent, empty and non-empty
\* data-title, title and img alt attributes
CaptionPages ==
    { << [lightbox |-> lb, href |-> "/a.jpg", dataTitle |-> d, title |-> t, alt |-> a] >> :
         lb \in {"", "vacation"}, d \in {null, "", "D"}, t \in {null, "", "T"},
         a \in {null, "", "A"} }

InitCaption ==
    /\ anchors \in CaptionPages
    /\ listeners = [i \in DOMAIN anchors |-> << >>]
    /\ groups = << >>
    /\ currentGroup = null
    /\ currentIndex = -1
    /\ overlay = null
    /\ classList = {}
    /\ rootClassList = {}
    /\ img = [src |-> null, alt |-> null]
    /\ caption = null
    /\ prevBtn = null
    /\ nextBtn = null
    /\ bodyOverlays = 0
    /\ keydownListeners = 0
    /\ page = "loading"
    /\ refreshes = 0
    /\ edits = 0
    /\ dirty = FALSE
    /\ lastEvent = NoEvent

SpecCaption == InitCaption /\ [][Next]_vars

(* ------------------------------------------------- vocabulary of the claims *)
Visible == "is-open" \in classList
Locked  == "gd-lightbox-lock" \in rootClassList
Closed  == ~Visible /\ ~Locked /\ currentIndex = -1

\* the items of the group that is open
CurrentItems == GetItems(currentGroup)

\* the last event was an unmodified primary click on an indexed anchor
PlainClick == lastEvent.type = "click" /\ lastEvent.name = "plain"

\* the interceptor that ran last in the dispatch of the last click: its
\* open(group, src) call is the one the state after the click results from
LastCall == listeners[lastEvent.n][Len(listeners[lastEvent.n])]

\* 0-based positions of the items of a group whose source is src
Matches(items, src) == { k \in 0..(Len(items) - 1) : items[k + 1].src = src }

\* the index the specification resolves: the first match, 0 without a match
Resolved(items, src) ==
    IF Matches(items, src) = {} THEN 0
    ELSE CHOOSE k \in Matches(items, src) : \A m \in Matches(items, src) : k <= m

C1_WitnessNoMatch ==
    /\ PlainClick
    /\ GetItems(LastCall.group) # << >>
    /\ Matches(GetItems(LastCall.group), LastCall.src) = {}
    /\ currentIndex = 0

(* ---------------------------------------------------------------- C2 *)
\* the step delivers the key k / a click on element t of the overlay
KeyStep(k)     == lastEvent'.type = "keydown" /\ lastEvent'.name = k
OverlayStep(t) == lastEvent'.type = "overlayclick" /\ lastEvent'.name = t

\* the step calls showIndex(currentIndex + d) through a key or a button
NavStep(d) ==
    IF d < 0 THEN KeyStep("ArrowLeft") \/ OverlayStep("prevBtn")
    ELSE KeyStep("ArrowRight") \/ OverlayStep("nextBtn")

\* C2: while a group of length N >= 1 is open, showIndex(j) with j < 0 sets
\* currentIndex to N-1 and showIndex(j) with j >= N sets it to 0; for N = 1
\* previous and next both yield index 0 and hide the navigation controls.
C2_CircularNavigation ==
    [][ \A d \in {-1, 1} :
          (Visible /\ Len(CurrentItems) >= 1 /\ NavStep(d)) =>
             LET N == Len(CurrentItems)
                 j == currentIndex + d
             IN  /\ j < 0  => currentIndex' = N - 1
                 /\ j >= N => currentIndex' = 0
                 /\ N = 1  => /\ currentIndex' = 0
                              /\ prevBtn' = "none"
                              /\ nextBtn' = "none" ]_vars

\* the left arrow wrapped from the first to the last item of a longer group
C2_Witness ==
    /\ Visible
    /\ lastEvent.type = "keydown" /\ lastEvent.name = "ArrowLeft"
    /\ Len(CurrentItems) >= 2
    /\ currentIndex = Len(CurrentItems) - 1

\* next on a group of one item stayed on item 0 with the controls hidden
C2_WitnessSingle ==
    /\ Visible
    /\ lastEvent.type = "keydown" /\ lastEvent.name = "ArrowRight"
    /\ Len(CurrentItems) = 1
    /\ currentIndex = 0 /\ prevBtn = "none" /\ nextBtn = "none"

(* ---------------------------------------------------------------- C3 *)
\* the group table holds the gallery of scenario A
IndexedScenarioA ==
    /\ "vacation" \in DOMAIN groups
    /\ Len(groups["vacation"]) = 3
    /\ \A k \in 1..3 : /\ groups["vacation"][k].src = HrefSeq[k]
                       /\ groups["vacation"][k].link = k

\* the overlay is visible and shows item k of the gallery "vacation"
Shows(k) ==
    /\ Visible
    /\ currentGroup = "vacation"
    /\ currentIndex = k
    /\ img.src = HrefSeq[k + 1]

\* the step is an unmodified click on anchor i
ClickStep(i) ==
    lastEvent'.type = "click" /\ lastEvent'.name = "plain" /\ lastEvent'.n = i

\* C3: with /a.jpg, /b.jpg, /c.jpg indexed in group "vacation" in document
\* order, an unmodified click on the second anchor leaves the overlay visible
\* showing /b.jpg at index 1; a right-arrow key press that follows shows
\* /c.jpg at index 2; a second right-arrow key press wraps to /a.jpg, index 0.
C3_ScenarioA ==
    [][ IndexedScenarioA =>
          /\ ClickStep(2) => Shows(1)'
          /\ (PlainClick /\ lastEvent.n = 2 /\ KeyStep("ArrowRight")) => Shows(2)'
          /\ (lastEvent.type = "keydown" /\ lastEvent.name = "ArrowRight"
                /\ Shows(2) /\ KeyStep("ArrowRight")) => Shows(0)' ]_vars

\* the second right-arrow press of the scenario has wrapped to /a.jpg
C3_Witness ==
    /\ IndexedScenarioA
    /\ lastEvent.type = "keydown" /\ lastEvent.name = "ArrowRight"
    /\ Shows(0)

(* ---------------------------------------------------------------- C4 *)
\* the step runs hide(): Escape, or a click on the backdrop or the close control
HideStep ==
    Visible /\ (KeyStep("Escape") \/ OverlayStep("overlay") \/ OverlayStep("closeBtn"))

\* the step delivers a left or right arrow key
ArrowStep == KeyStep("ArrowLeft") \/ KeyStep("ArrowRight")

\* C4: hide() clears the visibility flag, and while the flag is clear an arrow
\* key changes neither currentIndex nor the displayed image, caption, controls
\* or visibility: after hide() no sequence of arrow keys has an effect until
\* the next open().
C4_DismissalRestoresClosed ==
    [][ /\ HideStep => ~Visible'
        /\ (~Visible /\ ArrowStep) =>
              UNCHANGED << currentGroup, currentIndex, img, caption, prevBtn,
                           nextBtn, classList, rootClassList >> ]_vars

\* an arrow key arrived after a hide(), with a non-empty group still current
C4_Witness ==
    /\ overlay # null
    /\ ~Visible
    /\ lastEvent.type = "keydown" /\ lastEvent.name = "ArrowRight"
    /\ Len(CurrentItems) >= 2
    /\ currentIndex = -1

(* ---------------------------------------------------------------- C5 *)
\* the open(group, src) call that decides the state after a click on anchor i
CallOf(i) == listeners[i][Len(listeners[i])]

\* C5: open(group, source) on a group without indexed items (a name absent
\* from the group table included) constructs no session: from Closed the
\* controller stays Closed, the overlay is not marked visible, the scroll lock
\* is not set and currentIndex remains -1.
C5_EmptyGroupStaysClosed ==
    [][ \A i \in DOMAIN anchors :
          (Closed /\ ClickStep(i) /\ GetItems(CallOf(i).group) = << >>) =>
             Closed' ]_vars

(* ---------------------------------------------------------------- C6 *)
\* C6: hide() from any Open state yields Closed: the visibility flag is
\* cleared, the scroll lock released and currentIndex reset to -1; the group
\* table, the groups other than the open one included, is left unchanged.
C6_HideYieldsClosed ==
    [][ HideStep => (Closed' /\ groups' = groups) ]_vars

\* the close control has closed a session while two groups were indexed
C6_Witness ==
    /\ lastEvent.type = "overlayclick" /\ lastEvent.name = "closeBtn"
    /\ Closed
    /\ CurrentItems # << >>
    /\ Cardinality(DOMAIN groups) >= 2

(* ---------------------------------------------------------------- C7 *)
\* the index showIndex(j) selects in a group of N >= 1 items
Wrap(j, N) == IF j < 0 THEN N - 1 ELSE IF j >= N THEN 0 ELSE j

\* C7: while the overlay is visible, a click on the backdrop itself, a click
\* on the close control and the Escape key each lead to Closed; a click inside
\* the content stage leaves visibility, scroll lock, currentGroup and
\* currentIndex unchanged; a click on the previous/next control navigates
\* and does not close.
C7_DismissalTriggers ==
    [][ Visible =>
          /\ (OverlayStep("overlay") \/ OverlayStep("closeBtn") \/ KeyStep("Escape"))
                => Closed'
          /\ (OverlayStep("stage") \/ OverlayStep("img") \/ OverlayStep("caption"))
                => UNCHANGED << classList, rootClassList, currentGroup, currentIndex >>
          /\ \A d \in {-1, 1} :
                (OverlayStep(IF d < 0 THEN "prevBtn" ELSE "nextBtn")) =>
                   /\ UNCHANGED << classList, rootClassList, currentGroup >>
                   /\ CurrentItems # << >> =>
                         currentIndex' = Wrap(currentIndex + d, Len(CurrentItems)) ]_vars

\* a click on the image left the session open on its item
C7_Witness ==
    /\ lastEvent.type = "overlayclick" /\ lastEvent.name = "img"
    /\ Visible /\ Locked
    /\ currentIndex >= 0

(* ---------------------------------------------------------------- C8 *)
\* the last event was a run of prepareGroups(): the table is that of 'anchors'
Prepared == lastEvent.type \in {"refresh", "DOMContentLoaded"}

\* the eligible anchors: those carrying the group-name attribute
Eligible == { i \in DOMAIN anchors : anchors[i].lightbox # null }

\* the group the attribute of anchor i names
GroupNameOf(i) ==
    IF anchors[i].lightbox \in {null, ""} THEN "_default" ELSE anchors[i].lightbox

\* the places <<group, position>> of the table that hold anchor i
Places(i) ==
    { pl \in (DOMAIN groups) \X (1..Len(anchors)) :
         pl[2] <= Len(groups[pl[1]]) /\ groups[pl[1]][pl[2]].link = i }

PrepareStep == lastEvent'.type \in {"refresh", "DOMContentLoaded"}

\* the table is the default group holding the page's only anchor
SingleDefault ==
    /\ DOMAIN groups = {"_default"}
    /\ Len(groups["_default"]) = 1
    /\ groups["_default"][1].link = 1
    /\ groups["_default"][1].src = anchors[1].href

\* scenario B for a page whose only anchor has the group attribute value lb:
\* indexing gives the default group of size 1, the click opens that item with
\* the navigation controls hidden, the Escape that follows closes the overlay
\* and removes the scroll lock
ScenarioB(lb) ==
    (Len(anchors) = 1 /\ anchors[1].lightbox = lb) =>
       /\ PrepareStep => SingleDefault'
       /\ (SingleDefault /\ ClickStep(1)) =>
             /\ Visible' /\ Locked'
             /\ currentGroup' = "_default" /\ currentIndex' = 0
             /\ img'.src = anchors[1].href
             /\ prevBtn' = "none" /\ nextBtn' = "none"
       /\ (SingleDefault /\ PlainClick /\ KeyStep("Escape")) =>
             ~Visible' /\ ~Locked'

\* C9 as stated: a page whose only anchor has no group attribute is indexed
\* into the default group of size 1; clicking it opens the overlay on that
\* item with the previous/next controls hidden; Escape then closes the
\* overlay and removes the scroll lock.
C9_Original == [][ ScenarioB(null) ]_vars

\* C9 amended: the same scenario for a page whose only anchor carries the
\* group attribute with an empty value.
C9_ScenarioB == [][ ScenarioB("") ]_vars

\* the scenario has run to its end on the page with the empty attribute
C9_Witness ==
    /\ Len(anchors) = 1 /\ anchors[1].lightbox = ""
    /\ SingleDefault
    /\ lastEvent.type = "keydown" /\ lastEvent.name = "Escape"
    /\ overlay # null /\ Closed
    /\ currentGroup = "_default" /\ img.src = anchors[1].href
    /\ prevBtn = "none" /\ nextBtn = "none"

(* ---------------------------------------------------------------- C10 *)
\* no anchor is held twice by the table
NoDuplicates ==
    \A i \in DOMAIN anchors : Cardinality(Places(i)) <= 1

\* C10: refresh() discards the previous table and recomputes it from the
\* markup: called again with unchanged markup it yields the table of the
\* call before (same group names, same items in the same order, no item twice).
C10_IdempotentRefresh ==
    [][ (PrepareStep /\ refreshes >= 1 /\ ~dirty) =>
           (groups' = groups /\ NoDuplicates') ]_vars

\* a second refresh of an unchanged, non-empty markup has run
C10_Witness ==
    /\ Prepared
    /\ refreshes >= 2 /\ edits = 0
    /\ \E g \in DOMAIN groups : Len(groups[g]) >= 2
    /\ NoDuplicates

(* ---------------------------------------------------------------- C11 *)
\* C11: the overlay is constructed at most once, on the first open; a later
\* construction attempt creates no second overlay and registers no further
\* listener, so one arrow key pressed while open makes exactly one showIndex
\* transition.
C11_OverlaySingleton ==
    [][ /\ bodyOverlays' <= 1 /\ keydownListeners' <= 1
        /\ (overlay' = null) <=> (bodyOverlays' = 0)
        /\ overlay # null =>
              UNCHANGED << overlay, bodyOverlays, keydownListeners >>
        /\ \A d \in {-1, 1} :
              (Visible /\ CurrentItems # << >>
                 /\ KeyStep(IF d < 0 THEN "ArrowLeft" ELSE "ArrowRight")) =>
                 currentIndex' = Wrap(currentIndex + d, Len(CurrentItems)) ]_vars

\* after a refresh and a click on an overlay built before, one right arrow
\* moved a three-item gallery by one position
C11_Witness ==
    /\ bodyOverlays = 1 /\ keydownListeners = 1
    /\ Visible
    /\ lastEvent.type = "keydown" /\ lastEvent.name = "ArrowRight"
    /\ Len(CurrentItems) = 3
    /\ currentIndex = 1
    /\ refreshes >= 2

(* ---------------------------------------------------------------- C12 *)
\* the item the group table holds for anchor i, and the group holding it
GroupOf(i) == CHOOSE g \in DOMAIN groups : \E k \in DOMAIN groups[g] : groups[g][k].link = i
ItemOf(i)  == LET g == GroupOf(i)
              IN  groups[g][CHOOSE k \in DOMAIN groups[g] : groups[g][k].link = i]

\* C12: a click on an indexed anchor with a non-primary button or with a
\* meta/ctrl/shift/alt modifier leaves the session state unchanged and does
\* not suppress default navigation; every other click on an indexed anchor
\* suppresses it and calls open with the anchor's group name and source.
C12_ClickInterception ==
    [][ \A i \in DOMAIN anchors :
          (lastEvent'.type = "click" /\ lastEvent'.n = i /\ Places(i) # {}) =>
             /\ lastEvent'.name = "modified" =>
                   UNCHANGED sessionVars /\ ~lastEvent'.prevented
             /\ lastEvent'.name = "plain" =>
                   /\ lastEvent'.prevented
                   /\ overlay' # null /\ Visible' /\ Locked'
                   /\ currentGroup' = GroupOf(i)
                   /\ currentIndex' = Resolved(groups[GroupOf(i)], ItemOf(i).src)
                   /\ img'.src = groups[GroupOf(i)][currentIndex' + 1].src ]_vars

\* a modified click on an indexed anchor arrived while a session was open
C12_Witness ==
    /\ lastEvent.type = "click" /\ lastEvent.name = "modified"
    /\ ~lastEvent.prevented
    /\ Places(lastEvent.n) # {}
    /\ Visible /\ currentIndex >= 0

(* ---------------------------------------------------------------- C13 *)
\* the last event ran open() or showIndex() on the group now current
JustRendered ==
    \/ PlainClick
    \/ /\ Visible
       /\ \/ lastEvent.type = "keydown" /\ lastEvent.name \in {"ArrowLeft", "ArrowRight"}
          \/ lastEvent.type = "overlayclick" /\ lastEvent.name \in {"prevBtn", "nextBtn"}

\* C13: right after every open() or showIndex() on a non-empty group the
\* displayed image source is the source of the item at currentIndex of
\* currentGroup, the alternative text and the caption text are that item's
\* caption (the empty string if it has none), and the previous/next controls
\* are shown if and only if the group has more than one item.
C13_RenderSynchronisation ==
    (JustRendered /\ CurrentItems # << >>) =>
       /\ currentIndex \in 0..(Len(CurrentItems) - 1)
       /\ img.src = CurrentItems[currentIndex + 1].src
       /\ img.alt = CurrentItems[currentIndex + 1].title
       /\ caption = CurrentItems[currentIndex + 1].title
       /\ prevBtn = (IF Len(CurrentItems) > 1 THEN "" ELSE "none")
       /\ nextBtn = (IF Len(CurrentItems) > 1 THEN "" ELSE "none")

\* navigation has rendered a captioned item of a group of several items
C13_Witness ==
    /\ Visible
    /\ lastEvent.type = "overlayclick" /\ lastEvent.name = "nextBtn"
    /\ Len(CurrentItems) >= 2
    /\ caption = "T" /\ img.alt = "T" /\ img.src = "/b.jpg"
    /\ prevBtn = "" /\ nextBtn = ""

(* ---------------------------------------------------------------- C14 *)
\* an attribute value that is present and not empty
Present(v) == v # null /\ v # ""

\* the caption the priority rule gives anchor a
CaptionRule(a) ==
    IF Present(a.dataTitle) THEN a.dataTitle
    ELSE IF Present(a.title) THEN a.title
    ELSE IF Present(a.alt) THEN a.alt
    ELSE ""

\* C14: the caption of an indexed item is the first present, non-empty value
\* among the anchor's data-title, its title and the alt of its contained
\* image, in that order, and the empty string when none is present; after
\* opening an anchor without any of them the caption text and the image's
\* alternative text are both empty.
C14_CaptionResolution ==
    /\ \A g \in DOMAIN groups : \A k \in DOMAIN groups[g] :
          groups[g][k].title = CaptionRule(anchors[groups[g][k].link])
    /\ (PlainClick /\ CurrentItems # << >>
          /\ LET a == anchors[CurrentItems[currentIndex + 1].link]
             IN  a.dataTitle = null /\ a.title = null /\ a.alt = null)
         => (caption = "" /\ img.alt = "")

\* an anchor with an empty data-title, a title and an img alt was opened
C14_Witness ==
    /\ PlainClick /\ Visible
    /\ anchors[1].dataTitle = "" /\ anchors[1].title = "T" /\ anchors[1].alt = "A"
    /\ caption = "T" /\ img.alt = "T"

\* an anchor without caption attributes was opened
C14_WitnessNone ==
    /\ PlainClick /\ Visible /\ CurrentItems # << >>
    /\ anchors[1].dataTitle = null /\ anchors[1].title = null /\ anchors[1].alt = null
    /\ caption = "" /\ img.alt = ""

(* ---------------------------------------------------------------- C15 *)
\* C15: in every reachable state, under any interleaving of anchor clicks,
\* key presses, overlay clicks and refresh() calls, the page scroll lock is
\* set if and only if the overlay is marked visible.
C15_LockIffVisible == Locked <=> Visible

\* a refresh ran while the overlay was visible and the scroll locked
C15_Witness ==
    /\ lastEvent.type = "refresh"
    /\ Visible /\ Locked
    /\ refreshes >= 2

(* ---------------------------------------------------------------- C16 *)
\* C16: in every reachable state, if the overlay is not visible then
\* currentIndex is -1, and if it is visible then currentIndex is a valid
\* index into the item sequence of the group named by currentGroup.
C16_IndexValidity ==
    /\ ~Visible => currentIndex = -1
    /\ Visible  => (0 <= currentIndex /\ currentIndex < Len(CurrentItems))

(* ---------------------------------------------------------------- C17 *)
\* C17: after any number of refresh() calls an unmodified primary click on an
\* anchor opens the overlay only if the anchor is in the current group table,
\* and the click then ends Open on the group name and source that the most
\* recent refresh() recorded for the anchor: interceptors left over from
\* earlier refreshes never determine the final state.
C17_LatestRefreshDecides ==
    [][ \A i \in DOMAIN anchors :
          ClickStep(i) =>
             /\ Visible' => Places(i) # {}
             /\ Places(i) # {} =>
                   /\ Visible'
                   /\ currentGroup' = GroupOf(i)
                   /\ img'.src = ItemOf(i).src ]_vars

(* ---------------------------------------------------------------- C18 *)
\* C18: refresh() changes only the group table and the attached click
\* interceptors: in any state, Closed or Open, it leaves currentGroup,
\* currentIndex, overlay visibility, the scroll lock and the displayed image,
\* caption and navigation-control visibility unchanged.
C18_RefreshFrame ==
    [][ PrepareStep =>
          UNCHANGED << currentGroup, currentIndex, overlay, classList, rootClassList,
                       img, caption, prevBtn, nextBtn >> ]_vars

\* a refresh that changed the group table ran while a session was open
C18_Witness ==
    /\ lastEvent.type = "refresh"
    /\ Visible /\ currentIndex >= 0
    /\ edits >= 1
    /\ img.src # "" /\ currentGroup # null

(* ---------------------------------------------------------------- C19 *)
\* C19: open() issued while already Open replaces the session: afterwards
\* currentGroup is the newly requested group and, if that group is not empty,
\* currentIndex is the index resolved for the requested source; visibility
\* and scroll lock are flags, not counters, so they are as one open() sets
\* them and a single hide() after any number of open() calls yields Closed.
C19_OpenWhileOpen ==
    [][ /\ \A i \in DOMAIN anchors :
              (Visible /\ ClickStep(i)) =>
                 /\ currentGroup' = CallOf(i).group
                 /\ GetItems(CallOf(i).group) # << >> =>
                       currentIndex' = Resolved(GetItems(CallOf(i).group), CallOf(i).src)
                 /\ classList' = {"is-open"}
                 /\ rootClassList' = {"gd-lightbox-lock"}
        /\ HideStep => Closed' ]_vars

\* a click arrived while a session was open: the index of the earlier
\* session, which only hide() resets, is still there after an open() on a
\* group without items
C19_Witness ==
    /\ PlainClick /\ Visible
    /\ currentIndex >= 0
    /\ GetItems(LastCall.group) = << >>
    /\ currentGroup = LastCall.group

(* ---------------------------------------------------------------- C20 *)
\* the session after one press of a key, as the document dispatches it
Press(s, key) == dispatchKey(s, key, s.keydownListeners)

\* the session after n presses of the same key
RECURSIVE Presses(_, _, _)
Presses(s, key, n) == IF n = 0 THEN s ELSE Presses(Press(s, key), key, n - 1)

\* a session is open on a valid index of a non-empty group
OpenValid ==
    Visible /\ 0 <= currentIndex /\ currentIndex < Len(CurrentItems)

\* C20: next and previous are inverse steps on a cycle: in an Open state on
\* a group of length N >= 1 with valid index i and without a refresh in
\* between, right then left (or left then right) returns currentIndex to i,
\* N right presses (or N left presses) return it to i, and the prev/next
\* buttons behave as the left/right arrow keys.
C20_InverseOnCycle ==
    OpenValid =>
       LET right == Press(Session, "ArrowRight")
           left  == Press(Session, "ArrowLeft")
       IN  /\ Press(right, "ArrowLeft").currentIndex = currentIndex
           /\ Press(left, "ArrowRight").currentIndex = currentIndex
           /\ Presses(Session, "ArrowRight", Len(CurrentItems)).currentIndex = currentIndex
           /\ Presses(Session, "ArrowLeft", Len(CurrentItems)).currentIndex = currentIndex
           /\ overlayClick(Session, "prevBtn") = left
           /\ overlayClick(Session, "nextBtn") = right
           /\ Len(CurrentItems) >= 2 => right.currentIndex # currentIndex
           /\ Len(CurrentItems) >= 3 => right.currentIndex # left.currentIndex

\* the left arrow has stepped back inside a gallery of three items
C20_Witness ==
    /\ OpenValid
    /\ Len(CurrentItems) = 3
    /\ lastEvent.type = "keydown" /\ lastEvent.name = "ArrowLeft"
    /\ currentIndex = 1

====
